---- MODULE Spec2Model ----
(***************************************************************************)
(* Build service: the submission handler (createBuildHandler), the         *)
(* per-build background task (processBuild), the PostgreSQL persistence    *)
(* port (database.go) and the Prometheus metrics they update.              *)
(*                                                                         *)
(* The r-th accepted submission has index r in 1..Len(mem): mem[r] is the  *)
(* BuildRequest struct `req` of that handler invocation (shared by pointer *)
(* with the goroutine it spawns) and task[r] the goroutine running         *)
(* processBuild.  resp is the response the submission handler wrote last.  *)
(***************************************************************************)
EXTENDS Integers, Sequences, FiniteSets, TLC

\* ------------------------------------------------------------------ bounds
MaxBuilds == 2
MaxClock == 1

\* ------------------------------------------------------- program constants
StatusOK == 200
StatusCreated == 201
StatusBadRequest == 400
StatusNotFound == 404
StatusInternalServerError == 500
StatusServiceUnavailable == 503

\* Inputs of a submission: a body json.Decode rejects, or one it decodes to
\* a project name, a git URL and a branch.  The project names have length
\* 0, 2 and 10; each of the three fields is empty in some body.
Garbage == [ok |-> FALSE, ProjectName |-> "", GitURL |-> "", Branch |-> ""]
Body(name, url, branch) ==
    [ok |-> TRUE, ProjectName |-> name, GitURL |-> url, Branch |-> branch]
Bodies ==
    {Garbage,
     Body("", "u", ""), Body("ab", "", "dev"),
     Body("ab", "u", ""), Body("abcdefghij", "u", "dev")}

\* Project names for the outcome of the build step: two of length 2, two of
\* length 10, one of length 11 and one of length 20.
OutcomeNames ==
    {"ab", "cd", "abcdefghij", "klmnopqrst", "abcdefghijk",
     "abcdefghijklmnopqrst"}
OutcomeBodies == {Body(name, "u", "main") : name \in OutcomeNames}

ProjectNames == {b.ProjectName : b \in Bodies \cup OutcomeBodies}

VARIABLES
    resp,           \* the response createBuildHandler wrote last
    reply,          \* the response a GET handler (health, get, list) wrote last
    handler,        \* the createBuildHandler invocation that is followed
                    \* statement by statement, if there is one
    mem,            \* mem[r]: the `req` struct of the r-th accepted submission
    task,           \* task[r]: the goroutine `go bs.processBuild(&req)`
    rows,           \* table builds, in insertion order
    seq,            \* last value of the sequence builds_id_seq (id SERIAL)
    svcClock,       \* last reading of the service's time.Now()
    dbClock,        \* last reading of the database's NOW()
    BuildsTotal,    \* counter builds_total, by label "status"
    BuildDuration,  \* histogram build_duration_seconds: observations by "project"
    ActiveBuilds,   \* gauge active_builds
    HealthCheck,    \* gauge health_status
    ledger,         \* ledger[r]: what build r added to and took from the metrics
    proc            \* where main is: "serving" (blocked on <-quit),
                    \* "shuttingDown" (in srv.Shutdown), "drained" (Shutdown
                    \* returned nil), "closed" (the deferred db.Close ran),
                    \* "exited" (main returned and the process is gone),
                    \* "fatal" (log.Fatalf ended the process)

vars == <<resp, reply, handler, mem, task, rows, seq, svcClock, dbClock, BuildsTotal,
          BuildDuration, ActiveBuilds, HealthCheck, ledger, proc>>

\* ---------------------------------------------------------------- helpers
\* A reading of a clock whose last reading was c: clocks do not run
\* backwards and the model stops them at MaxClock.
Readings(c) == {t \in c..(c + 1) : t <= MaxClock}

\* The zero value of BuildRequest (`var req BuildRequest`); time.Time{} is -1.
\* It also stands for the body of an error response, which holds no build.
ZeroBuildRequest ==
    [ID |-> 0, ProjectName |-> "", GitURL |-> "", Branch |-> "",
     Status |-> "", CreatedAt |-> -1, UpdatedAt |-> -1]

\* ------------------------------------------------------- persistence port
\* Mutant: the INSERT returns the sequence's current value once it has one,
\* not its next value.
NextValStuck == IF seq = 0 THEN 1 ELSE seq

\* nextval('builds_id_seq'): the id the INSERT of CreateBuild returns.
NextVal == seq + 1

\* INSERT INTO builds (...) VALUES ($1..$6) RETURNING id
CreateBuild(build, id) ==
    Append(rows, [id |-> id,
                  project_name |-> build.ProjectName,
                  git_url |-> build.GitURL,
                  branch |-> build.Branch,
                  status |-> build.Status,
                  created_at |-> build.CreatedAt,
                  updated_at |-> build.UpdatedAt])

\* Mutant: the UPDATE without its WHERE clause.
UpdateEveryBuild(id, status, now) ==
    [i \in DOMAIN rows |-> [rows[i] EXCEPT !.status = status, !.updated_at = now]]

\* UPDATE builds SET status = $1, updated_at = NOW() WHERE id = $2
UpdateBuildStatus(id, status, now) ==
    [i \in DOMAIN rows |->
        IF rows[i].id = id
        THEN [rows[i] EXCEPT !.status = status, !.updated_at = now]
        ELSE rows[i]]

\* rows.Scan(&build.ID, ..., &build.UpdatedAt): a row as a BuildRequest.
Scan(row) ==
    [ID |-> row.id, ProjectName |-> row.project_name, GitURL |-> row.git_url,
     Branch |-> row.branch, Status |-> row.status,
     CreatedAt |-> row.created_at, UpdatedAt |-> row.updated_at]

\* Mutant: sql.ErrNoRows is passed on as it is.
GetBuildRawNoRows(id, dbOk) ==
    LET hits == {i \in DOMAIN rows : rows[i].id = id}
    IN  IF ~dbOk
        THEN [build |-> ZeroBuildRequest, err |-> "connection refused",
              outcome |-> "error"]
        ELSE IF hits = {}
        THEN [build |-> ZeroBuildRequest, err |-> "sql: no rows in result set",
              outcome |-> "no rows"]
        ELSE [build |-> Scan(rows[CHOOSE i \in hits : TRUE]), err |-> "",
              outcome |-> "row"]

\* SELECT ... FROM builds WHERE id = $1, scanned into a BuildRequest:
\* sql.ErrNoRows becomes the error "build not found", any other error is
\* passed on.  outcome records what the query did.
GetBuild(id, dbOk) ==
    LET hits == {i \in DOMAIN rows : rows[i].id = id}
    IN  IF ~dbOk
        THEN [build |-> ZeroBuildRequest, err |-> "connection refused",
              outcome |-> "error"]
        ELSE IF hits = {}
        THEN [build |-> ZeroBuildRequest, err |-> "build not found",
              outcome |-> "no rows"]
        ELSE [build |-> Scan(rows[CHOOSE i \in hits : TRUE]), err |-> "",
              outcome |-> "row"]

\* Rows of equal created_at come in an order the query does not fix: the
\* model takes them by ascending or by descending id.
TieOrders == {"id asc", "id desc"}

\* Mutant: ORDER BY created_at ASC.
BeforeAscending(y, x, tie) ==
    \/ y.created_at < x.created_at
    \/ /\ y.created_at = x.created_at
       /\ IF tie = "id asc" THEN y.id < x.id ELSE y.id > x.id

\* ORDER BY created_at DESC: row y comes before row x.
Before(y, x, tie) ==
    \/ y.created_at > x.created_at
    \/ /\ y.created_at = x.created_at
       /\ IF tie = "id asc" THEN y.id < x.id ELSE y.id > x.id

\* The rows of t in the order of Before: a row's place is one more than the
\* number of rows that come before it.
OrderBy(t, tie) ==
    LET place == [i \in DOMAIN t |->
                    Cardinality({j \in DOMAIN t : Before(t[j], t[i], tie)}) + 1]
        at == [k \in DOMAIN t |-> CHOOSE i \in DOMAIN t : place[i] = k]
    IN  [k \in DOMAIN t |-> t[at[k]]]

\* LIMIT 100
ListLimit == 100
Limit(t) == SubSeq(t, 1, IF Len(t) < ListLimit THEN Len(t) ELSE ListLimit)

\* SELECT ... FROM builds ORDER BY created_at DESC LIMIT 100, each row
\* scanned into a BuildRequest.
ListBuilds(tie) ==
    LET listed == Limit(OrderBy(rows, tie))
    IN  [i \in DOMAIN listed |-> Scan(listed[i])]

\* ---------------------------------------------------- createBuildHandler
\* Mutant: the validation checks the project name only.
ValidProjectNameOnly(name, url) == name # ""

\* Mutant: a submission is refused while a build is active.
ValidRequestWhenIdle(name, url) == name # "" /\ url # "" /\ ActiveBuilds = 0

\* if req.ProjectName == "" || req.GitURL == "" { 400 }
ValidRequest(name, url) == name # "" /\ url # ""

\* Mutant: the branch is stored as submitted.
BranchAsSubmitted(branch) == branch

\* if req.Branch == "" { req.Branch = "main" }
DefaultBranch(branch) == IF branch = "" THEN "main" ELSE branch

\* What the handler wrote to its http.ResponseWriter, with the request it
\* answered and, for each call of CreateBuild it made on the way, the status of
\* the record it passed.
Response(request, code, build, creates) ==
    [request |-> request, code |-> code, body |-> build, creates |-> creates]

\* Mutant: an accepted submission moves the counter and not the gauge.
AcceptedCounterOnly ==
    /\ BuildsTotal' = [BuildsTotal EXCEPT !["queued"] = @ + 1]
    /\ UNCHANGED ActiveBuilds
    /\ ledger' = Append(ledger, [inc |-> 0, dec |-> 0, obs |-> 0])

\* Mutant: an accepted submission moves the gauge and not the counter.
AcceptedGaugeOnly ==
    /\ UNCHANGED BuildsTotal
    /\ ActiveBuilds' = ActiveBuilds + 1
    /\ ledger' = Append(ledger, [inc |-> 1, dec |-> 0, obs |-> 0])

\* bs.metrics.BuildsTotal.WithLabelValues("queued").Inc(); bs.metrics.ActiveBuilds.Inc()
AcceptedMetrics ==
    /\ BuildsTotal' = [BuildsTotal EXCEPT !["queued"] = @ + 1]
    /\ ActiveBuilds' = ActiveBuilds + 1
    /\ ledger' = Append(ledger, [inc |-> 1, dec |-> 0, obs |-> 0])

\* go bs.processBuild(&req): the goroutine exists, its first statement not yet run.
Spawn == [pc |-> "spawned", exit |-> "none", updates |-> <<>>]

\* Mutant: the metrics of an accepted submission are updated before the
\* error of CreateBuild is looked at.
createFailedAfterMetrics ==
    /\ BuildsTotal' = [BuildsTotal EXCEPT !["queued"] = @ + 1]
    /\ ActiveBuilds' = ActiveBuilds + 1
    /\ UNCHANGED <<mem, task, rows, seq, ledger>>

\* if err != nil { log.Printf(...); http.Error(w, ..., 500); return }: the
\* handler returns before req.ID, the metrics and the go statement.
createFailed == UNCHANGED <<mem, task, rows, seq, BuildsTotal, ActiveBuilds, ledger>>

createBuildHandler(body) ==
    /\ proc = "serving"
    /\ IF ~body.ok
       THEN \* json.Decode failed: http.Error(w, "Invalid request body", 400)
            /\ resp' = Response(body, StatusBadRequest, ZeroBuildRequest, <<>>)
            /\ UNCHANGED <<handler, reply, mem, task, rows, seq, svcClock, dbClock, BuildsTotal,
                           BuildDuration, ActiveBuilds, HealthCheck, ledger, proc>>
       ELSE IF ~ValidRequest(body.ProjectName, body.GitURL)
       THEN /\ resp' = Response(body, StatusBadRequest, ZeroBuildRequest, <<>>)
            /\ UNCHANGED <<handler, reply, mem, task, rows, seq, svcClock, dbClock, BuildsTotal,
                           BuildDuration, ActiveBuilds, HealthCheck, ledger, proc>>
       ELSE \E created \in Readings(svcClock) :
            \E updated \in Readings(created) :
            \E dbOk \in BOOLEAN :
              LET req == [ID |-> 0, ProjectName |-> body.ProjectName,
                          GitURL |-> body.GitURL,
                          Branch |-> DefaultBranch(body.Branch),
                          Status |-> "queued",
                          CreatedAt |-> created, UpdatedAt |-> updated]
              IN  /\ svcClock' = updated
                  /\ IF dbOk
                     THEN LET id == NextVal
                              built == [req EXCEPT !.ID = id]
                          IN  /\ Len(mem) < MaxBuilds
                              /\ rows' = CreateBuild(req, id)
                              /\ seq' = id
                              /\ AcceptedMetrics
                              /\ resp' = Response(body, StatusCreated, built, <<req.Status>>)
                              /\ mem' = Append(mem, built)
                              /\ task' = Append(task, Spawn)
                              /\ UNCHANGED <<handler, reply, dbClock, BuildDuration, HealthCheck, proc>>
                     ELSE \* the INSERT failed: no row, err != nil
                          /\ resp' = Response(body, StatusInternalServerError,
                                              ZeroBuildRequest, <<req.Status>>)
                          /\ createFailed
                          /\ UNCHANGED <<handler, reply, dbClock, BuildDuration, HealthCheck, proc>>

\* Mutant: the tasks run under a context that main cancels when it is
\* signalled.
ScheduledWhileServing == proc = "serving"

\* A goroutine runs for as long as the process does.
Scheduled == proc \notin {"exited", "fatal"}

\* db.Close() has not run; after it every call on the pool fails ("sql:
\* database is closed").
DbOpen == proc \notin {"closed", "exited"}

\* ------------------------- createBuildHandler, statement by statement
\* One invocation at a time is followed through its statements; pc is
\* "idle", "decoded" (the body passed the validation) or "accepted", at is
\* then the place in HandlerOrder of the statement to come and r the index of
\* its req struct in mem.
Idle == [pc |-> "idle", at |-> 0, r |-> 0, body |-> Garbage]

\* Mutant: the go statement comes before the response is written.
GoBeforeRespond == <<"go", "respond", "return">>

\* The statements of the handler after the metrics of an accepted
\* submission: w.Header().Set, w.WriteHeader and Encode(req); go
\* bs.processBuild(&req); the return.
HandlerOrder == <<"respond", "go", "return">>

\* The request is read: json.Decode, the validation and the default branch
\* work on the handler's own req.
submitArrive(body) ==
    /\ proc = "serving"
    /\ handler = Idle
    /\ body.ok /\ ValidRequest(body.ProjectName, body.GitURL)
    /\ Len(mem) < MaxBuilds
    /\ handler' = [pc |-> "decoded", at |-> 0, r |-> 0, body |-> body]
    /\ UNCHANGED <<resp, reply, mem, task, rows, seq, svcClock, dbClock,
                   BuildsTotal, BuildDuration, ActiveBuilds, HealthCheck,
                   ledger, proc>>

\* req.Status, the two time.Now(), bs.db.CreateBuild(&req) and, when it
\* succeeded, req.ID and the metrics; when it failed, the 500 and the return.
submitStore(dbOk) ==
    /\ Scheduled
    /\ handler.pc = "decoded"
    /\ dbOk => DbOpen
    /\ \E created \in Readings(svcClock) :
       \E updated \in Readings(created) :
          LET body == handler.body
              req == [ID |-> 0, ProjectName |-> body.ProjectName,
                      GitURL |-> body.GitURL,
                      Branch |-> DefaultBranch(body.Branch),
                      Status |-> "queued",
                      CreatedAt |-> created, UpdatedAt |-> updated]
          IN  /\ svcClock' = updated
              /\ IF dbOk
                 THEN /\ rows' = CreateBuild(req, NextVal)
                      /\ seq' = NextVal
                      /\ AcceptedMetrics
                      /\ mem' = Append(mem, [req EXCEPT !.ID = NextVal])
                      /\ handler' = [pc |-> "accepted", at |-> 1,
                                   r |-> Len(mem) + 1, body |-> body]
                      /\ UNCHANGED resp
                 ELSE /\ resp' = Response(body, StatusInternalServerError,
                                          ZeroBuildRequest, <<req.Status>>)
                      /\ createFailed
                      /\ handler' = Idle
    /\ UNCHANGED <<reply, task, dbClock, BuildDuration, HealthCheck, proc>>

\* w.Header().Set(...); w.WriteHeader(201); json.NewEncoder(w).Encode(req):
\* the body is req as it is when Encode runs.
submitRespond ==
    /\ Scheduled
    /\ handler.pc = "accepted"
    /\ HandlerOrder[handler.at] = "respond"
    /\ resp' = Response(handler.body, StatusCreated, mem[handler.r], <<"queued">>)
    /\ handler' = [handler EXCEPT !.at = @ + 1]
    /\ UNCHANGED <<reply, mem, task, rows, seq, svcClock, dbClock, BuildsTotal,
                   BuildDuration, ActiveBuilds, HealthCheck, ledger, proc>>

\* go bs.processBuild(&req)
submitGo ==
    /\ Scheduled
    /\ handler.pc = "accepted"
    /\ HandlerOrder[handler.at] = "go"
    /\ task' = Append(task, Spawn)
    /\ handler' = [handler EXCEPT !.at = @ + 1]
    /\ UNCHANGED <<resp, reply, mem, rows, seq, svcClock, dbClock, BuildsTotal,
                   BuildDuration, ActiveBuilds, HealthCheck, ledger, proc>>

\* The handler returns; nothing in it waits for the goroutine.
submitReturn ==
    /\ Scheduled
    /\ handler.pc = "accepted"
    /\ HandlerOrder[handler.at] = "return"
    /\ handler' = Idle
    /\ UNCHANGED <<resp, reply, mem, task, rows, seq, svcClock, dbClock,
                   BuildsTotal, BuildDuration, ActiveBuilds, HealthCheck,
                   ledger, proc>>

\* ------------------------------------------------------------ processBuild
\* Mutant: the outcome depends on the name itself.
OutcomeByName(name) ==
    IF name = "klmnopqrst" \/ Len(name) % 10 # 0 THEN "success" ELSE "failed"

\* success := len(build.ProjectName)%10 != 0
Outcome(name) == IF Len(name) % 10 # 0 THEN "success" ELSE "failed"

\* Mutant: the error of the write of "running" is logged without a return.
AfterRunningWriteNoReturn(ok) == "sleeping"

\* Mutant: the write of "running" is tried again after an error.
AfterRunningWriteRetry(ok) == IF ok THEN "sleeping" ELSE "spawned"

\* Mutant: the task returns after the write of "running", whatever came of it.
AfterRunningWriteReturns(ok) == "done"

\* Mutant: the task gives up when the health gauge reads 0.
AfterRunningWriteIfHealthy(ok) ==
    IF ok /\ HealthCheck = 1 THEN "sleeping" ELSE "done"

\* After `if err := bs.db.UpdateBuildStatus(build.ID, "running"); err != nil`:
\* return on an error, go on to the build step otherwise.
AfterRunningWrite(ok) == IF ok THEN "sleeping" ELSE "done"

\* Mutant: the deferred function observes the duration and leaves the gauge.
deferredWithoutDec(r) ==
    /\ BuildDuration' = [BuildDuration EXCEPT ![mem[r].ProjectName] = @ + 1]
    /\ ledger' = [ledger EXCEPT ![r].obs = @ + 1]
    /\ UNCHANGED ActiveBuilds

\* Mutant: the exit accounting is inline at the end of processBuild, not
\* deferred, so the early return skips it.
returnEarlySkipsAccounting(r) == UNCHANGED <<BuildDuration, ActiveBuilds, ledger>>

\* The deferred function of processBuild: one observation of the duration
\* under the project's label and one decrement of the gauge.
deferred(r) ==
    /\ BuildDuration' = [BuildDuration EXCEPT ![mem[r].ProjectName] = @ + 1]
    /\ ActiveBuilds' = ActiveBuilds - 1
    /\ ledger' = [ledger EXCEPT ![r].dec = @ + 1, ![r].obs = @ + 1]

\* The `return` after the failed write of "running": the function returns,
\* so its deferred function runs.
returnEarly(r) == deferred(r)

\* bs.db.UpdateBuildStatus(build.ID, status) as the task calls it: the UPDATE
\* takes effect, with the database's NOW(), exactly when the call succeeds.
statusWrite(id, status, ok) ==
    IF ok
    THEN \E dbnow \in Readings(dbClock) :
           /\ dbClock' = dbnow
           /\ rows' = UpdateBuildStatus(id, status, dbnow)
    ELSE UNCHANGED <<rows, dbClock>>

\* task[r].updates holds the task's calls of UpdateBuildStatus in the order
\* it made them: the arguments and whether the call succeeded.
\*
\* From the goroutine's start to its return on a failed write of "running",
\* or to the start of the build step (time.Sleep).  build.UpdatedAt, which the
\* task also assigns, is read by nothing afterwards and is left out.
processBuildRunning(r, ok) ==
    /\ Scheduled
    /\ ok => DbOpen
    /\ r \in DOMAIN task
    /\ task[r].pc = "spawned"
    /\ mem' = [mem EXCEPT ![r].Status = "running"]
    /\ statusWrite(mem[r].ID, "running", ok)
    /\ LET call == [id |-> mem[r].ID, status |-> "running", ok |-> ok]
           pc == AfterRunningWrite(ok)
       IN  IF pc = "done"
           THEN /\ task' = [task EXCEPT ![r].updates = Append(@, call),
                                        ![r].pc = "done",
                                        ![r].exit = "runningWriteFailed"]
                /\ returnEarly(r)
           ELSE /\ task' = [task EXCEPT ![r].updates = Append(@, call),
                                        ![r].pc = pc]
                /\ UNCHANGED <<BuildDuration, ActiveBuilds, ledger>>
    /\ UNCHANGED <<handler, resp, reply, seq, svcClock, BuildsTotal, HealthCheck, proc>>

\* From the end of the build step to the goroutine's return.
processBuildFinish(r, ok) ==
    /\ Scheduled
    /\ ok => DbOpen
    /\ r \in DOMAIN task
    /\ task[r].pc = "sleeping"
    /\ LET status == Outcome(mem[r].ProjectName)
           call == [id |-> mem[r].ID, status |-> status, ok |-> ok]
       IN  /\ mem' = [mem EXCEPT ![r].Status = status]
           /\ BuildsTotal' = [BuildsTotal EXCEPT ![status] = @ + 1]
           /\ statusWrite(mem[r].ID, status, ok)
           /\ task' = [task EXCEPT
                         ![r].updates = Append(@, call),
                         ![r].pc = "done",
                         ![r].exit = IF ok THEN "normal" ELSE "terminalWriteFailed"]
           /\ deferred(r)
    /\ UNCHANGED <<handler, resp, reply, seq, svcClock, HealthCheck, proc>>

\* ------------------------------------------------------------ GET handlers
\* The health map of a reply that is not a health check's.
NoHealth == [status |-> "", database |-> "", timestamp |-> -1, service |-> ""]

\* What a GET handler wrote to its http.ResponseWriter, with the request it
\* answered (the {id} of the path, for a get): the status code, the
\* Content-Type the handler had set when the status line was written, the body
\* (a health map, a build or a list of builds) and the calls it made on the
\* persistence port, each with its outcome.
Reply(endpoint, request, code, contentType, health, build, builds, calls) ==
    [endpoint |-> endpoint, request |-> request, code |-> code,
     contentType |-> contentType, health |-> health, build |-> build,
     builds |-> builds, calls |-> calls]

\* http.Error(w, msg, code): a text/plain response with no build in it.
Error(endpoint, request, code, calls) ==
    Reply(endpoint, request, code, "text/plain; charset=utf-8",
          NoHealth, ZeroBuildRequest, <<>>, calls)

\* Mutant: the handler reports the outcome in the body and the gauge and
\* leaves the status code to the default.
HealthAlwaysOK(pingOk) ==
    [code |-> StatusOK,
     status |-> IF pingOk THEN "healthy" ELSE "unhealthy",
     database |-> IF pingOk THEN "connected" ELSE "disconnected",
     gauge |-> IF pingOk THEN 1 ELSE 0]

\* if err := bs.db.Ping(); err != nil { ... 503 } else { ... 200 }
Health(pingOk) ==
    IF pingOk
    THEN [code |-> StatusOK, status |-> "healthy",
          database |-> "connected", gauge |-> 1]
    ELSE [code |-> StatusServiceUnavailable, status |-> "unhealthy",
          database |-> "disconnected", gauge |-> 0]

\* net/http's ResponseWriter: the header map is copied when the status line is
\* written, by WriteHeader or by the first Write (which Encode makes), and a
\* Header().Set after that changes nothing of the response.  ws is the sequence
\* of the handler's calls on w; the result is the Content-Type the handler had
\* set when the status line was written, "" when it had set none.
ContentType(ws) ==
    LET writes == {i \in DOMAIN ws : ws[i] \in {"WriteHeader", "Encode"}}
        first  == IF writes = {} THEN Len(ws) + 1
                  ELSE CHOOSE i \in writes : \A j \in writes : i <= j
    IN  IF \E i \in 1..(first - 1) : ws[i] = "Header.Set"
        THEN "application/json"
        ELSE ""

\* healthHandler's calls on w: WriteHeader in either branch of the Ping test,
\* then w.Header().Set("Content-Type", "application/json"), then Encode.
HealthWrites == <<"WriteHeader", "Header.Set", "Encode">>

\* getBuildHandler's and listBuildsHandler's calls on w when they succeed.
BuildWrites == <<"Header.Set", "Encode">>

\* No GET request has been answered yet.
NoReply == Reply("", <<>>, 0, "", NoHealth, ZeroBuildRequest, <<>>, <<>>)

\* GET /api/v1/health.  The timestamp of the body is a reading of the
\* service's clock.
healthHandler(pingOk) ==
    /\ proc = "serving"
    /\ \E now \in Readings(svcClock) :
         LET h == Health(pingOk)
         IN  /\ svcClock' = now
             /\ HealthCheck' = h.gauge
             /\ reply' = Reply("health", <<>>, h.code,
                               ContentType(HealthWrites),
                               [status |-> h.status, database |-> h.database,
                                timestamp |-> now, service |-> "build-service"],
                               ZeroBuildRequest, <<>>,
                               <<[op |-> "Ping", id |-> 0,
                                 outcome |-> IF pingOk THEN "ok" ELSE "error"]>>)
    /\ UNCHANGED <<handler, resp, mem, task, rows, seq, dbClock, BuildsTotal,
                   BuildDuration, ActiveBuilds, ledger, proc>>

\* strconv.Atoi on a string given as the sequence of its characters: an
\* optional sign, then one or more decimal digits.
Digits == <<"0", "1", "2", "3", "4", "5", "6", "7", "8", "9">>
IsDigit(c) == \E d \in DOMAIN Digits : Digits[d] = c
DigitValue(c) == (CHOOSE d \in DOMAIN Digits : Digits[d] = c) - 1

RECURSIVE ParseUint(_)
ParseUint(s) ==
    IF s = <<>>
    THEN 0
    ELSE ParseUint(SubSeq(s, 1, Len(s) - 1)) * 10 + DigitValue(s[Len(s)])

Atoi(s) ==
    LET signed == s # <<>> /\ s[1] \in {"+", "-"}
        digits == IF signed THEN Tail(s) ELSE s
        ok == digits # <<>> /\ \A i \in DOMAIN digits : IsDigit(digits[i])
    IN  [ok |-> ok,
         n |-> IF ~ok THEN 0
               ELSE IF signed /\ s[1] = "-" THEN 0 - ParseUint(digits)
               ELSE ParseUint(digits)]

\* The {id} segments of the requests GET /api/v1/builds/{id}.
IdStrings ==
    {<<"1">>, <<"2">>, <<"0", "1">>, <<"+", "2">>, <<"-", "1">>,
     <<"1", "0", "1">>, <<"9">>, <<"a">>, <<"1", "x">>, <<"-">>}

\* GET /api/v1/builds/{id}
getBuildHandler(idStr, dbOk) ==
    /\ proc = "serving"
    /\ LET id == Atoi(idStr)
       IN  IF ~id.ok
           THEN reply' = Error("get", idStr, StatusBadRequest, <<>>)
           ELSE LET got == GetBuild(id.n, dbOk)
                    calls == <<[op |-> "GetBuild", id |-> id.n,
                                outcome |-> got.outcome]>>
                IN  IF got.err # ""
                    THEN IF got.err = "build not found"
                         THEN reply' = Error("get", idStr, StatusNotFound, calls)
                         ELSE reply' = Error("get", idStr,
                                             StatusInternalServerError, calls)
                    ELSE reply' = Reply("get", idStr, StatusOK,
                                        ContentType(BuildWrites), NoHealth,
                                        got.build, <<>>, calls)
    /\ UNCHANGED <<handler, resp, mem, task, rows, seq, svcClock, dbClock, BuildsTotal,
                   BuildDuration, ActiveBuilds, HealthCheck, ledger, proc>>

\* GET /api/v1/builds
listBuildsHandler(tie, dbOk) ==
    /\ proc = "serving"
    /\ LET calls == <<[op |-> "ListBuilds", id |-> 0,
                       outcome |-> IF dbOk THEN "rows" ELSE "error"]>>
       IN  IF ~dbOk
           THEN reply' = Error("list", <<>>, StatusInternalServerError, calls)
           ELSE reply' = Reply("list", <<>>, StatusOK, ContentType(BuildWrites),
                               NoHealth, ZeroBuildRequest, ListBuilds(tie), calls)
    /\ UNCHANGED <<handler, resp, mem, task, rows, seq, svcClock, dbClock, BuildsTotal,
                   BuildDuration, ActiveBuilds, HealthCheck, ledger, proc>>

\* ------------------------------------------------------------------- main
builds == <<mem, task, rows, seq, svcClock, dbClock, BuildsTotal,
            BuildDuration, ActiveBuilds, HealthCheck, ledger>>

\* <-quit: SIGINT or SIGTERM is delivered; main goes on to srv.Shutdown(ctx),
\* which closes the listeners first.
signal ==
    /\ proc = "serving"
    /\ proc' = "shuttingDown"
    /\ UNCHANGED <<handler, resp, reply, builds>>

\* Mutant: the error of Shutdown is logged and main goes on.
AfterShutdownLogged(err) == "drained"

\* if err := srv.Shutdown(ctx); err != nil { log.Fatalf(...) }
AfterShutdown(err) == IF err THEN "fatal" ELSE "drained"

\* srv.Shutdown(ctx) returns: nil once the connections are idle, ctx.Err()
\* when the 30 seconds of ctx ran out first.  On an error log.Fatalf exits the
\* process at once, without running main's deferred calls.
Shutdown(err) ==
    /\ proc = "shuttingDown"
    /\ ~err => handler = Idle
    /\ proc' = AfterShutdown(err)
    /\ UNCHANGED <<handler, resp, reply, builds>>

\* main returns: its deferred calls run, db.Close() among them.
Close ==
    /\ proc = "drained"
    /\ proc' = "closed"
    /\ UNCHANGED <<handler, resp, reply, builds>>

\* main has returned: the process exits, whatever its goroutines are doing.
exit ==
    /\ proc = "closed"
    /\ proc' = "exited"
    /\ UNCHANGED <<handler, resp, reply, builds>>

\* ------------------------------------------------------------ specification
\* NewBuildService(db) over a table that holds the rows of `table`, with
\* identifiers 1..Len(table): every metric at its initial value
\* (HealthCheck.Set(1)), no task, no request served.
Started(table) ==
    /\ resp = Response(Garbage, 0, ZeroBuildRequest, <<>>)
    /\ reply = NoReply
    /\ handler = Idle
    /\ mem = <<>>
    /\ task = <<>>
    /\ rows = table
    /\ seq = Len(table)
    /\ svcClock = 0
    /\ dbClock = 0
    /\ BuildsTotal = [s \in {"queued", "success", "failed"} |-> 0]
    /\ BuildDuration = [p \in ProjectNames |-> 0]
    /\ ActiveBuilds = 0
    /\ HealthCheck = 1
    /\ ledger = <<>>
    /\ proc = "serving"

\* The service started over an empty table.
Init == Started(<<>>)

Next ==
    \/ \E body \in Bodies : createBuildHandler(body)
    \/ \E r \in 1..MaxBuilds, ok \in BOOLEAN : processBuildRunning(r, ok)
    \/ \E r \in 1..MaxBuilds, ok \in BOOLEAN : processBuildFinish(r, ok)

Spec == Init /\ [][Next]_vars

\* The submissions of the specifications below: the accepted kind and a
\* refused kind of one project.
HealthBodies == {Garbage, Body("ab", "u", "")}

NextHealth ==
    \/ \E body \in HealthBodies : createBuildHandler(body)
    \/ \E r \in 1..MaxBuilds, ok \in BOOLEAN : processBuildRunning(r, ok)
    \/ \E r \in 1..MaxBuilds, ok \in BOOLEAN : processBuildFinish(r, ok)
    \/ \E pingOk \in BOOLEAN : healthHandler(pingOk)

SpecHealth == Init /\ [][NextHealth]_vars

\* The GET endpoints of a service started over a table that earlier runs of
\* the service filled: the table has from none to ListLimit + 1 rows, whose
\* creation times repeat with one of a few periods and whose statuses are
\* those a run can leave behind.
StampKinds == 3
TableSizes == {0, 1, 3, ListLimit - 1, ListLimit + 1}
LeftStatuses == <<"queued", "running", "success">>

ExistingTable(n, a) ==
    [i \in 1..n |->
        LET status == LeftStatuses[(i % Len(LeftStatuses)) + 1]
            created == (a * i) % StampKinds
        IN  [id |-> i, project_name |-> "ab", git_url |-> "u",
             branch |-> "main", status |-> status,
             created_at |-> created,
             updated_at |-> IF status = "queued" THEN created ELSE created + 1]]

ExistingTables ==
    {ExistingTable(n, a) : n \in TableSizes, a \in 0..(StampKinds - 1)}

InitRead == \E table \in ExistingTables : Started(table)

NextRead ==
    \/ \E idStr \in IdStrings, dbOk \in BOOLEAN : getBuildHandler(idStr, dbOk)
    \/ \E tie \in TieOrders, dbOk \in BOOLEAN : listBuildsHandler(tie, dbOk)

SpecRead == InitRead /\ [][NextRead]_vars

\* The service from its start to the exit of the process.
NextMain ==
    \/ \E body \in HealthBodies : createBuildHandler(body)
    \/ \E r \in 1..MaxBuilds, ok \in BOOLEAN : processBuildRunning(r, ok)
    \/ \E r \in 1..MaxBuilds, ok \in BOOLEAN : processBuildFinish(r, ok)
    \/ signal
    \/ \E err \in BOOLEAN : Shutdown(err)
    \/ Close
    \/ exit

SpecMain == Init /\ [][NextMain]_vars

\* The service over submissions that differ in the project name only, in
\* the behaviours in which neither clock is seen to advance.
ClocksStand == svcClock' = svcClock /\ dbClock' = dbClock

NextOutcome ==
    \/ \E body \in OutcomeBodies : createBuildHandler(body) /\ ClocksStand
    \/ \E r \in 1..MaxBuilds, ok \in BOOLEAN :
          processBuildRunning(r, ok) /\ ClocksStand
    \/ \E r \in 1..MaxBuilds, ok \in BOOLEAN :
          processBuildFinish(r, ok) /\ ClocksStand

SpecOutcome == Init /\ [][NextOutcome]_vars

\* The persistence port on its own: UpdateBuildStatus as any holder of the
\* DatabaseInterface can call it, with any identifier and any of the four
\* statuses, over a table of three rows that earlier runs left behind.
PortStatuses == {"queued", "running", "success", "failed"}
PortRows == Len(LeftStatuses)

callUpdateBuildStatus(id, status, ok) ==
    /\ DbOpen
    /\ statusWrite(id, status, ok)
    /\ UNCHANGED <<resp, reply, handler, mem, task, seq, svcClock, BuildsTotal,
                   BuildDuration, ActiveBuilds, HealthCheck, ledger, proc>>

InitPort == \E a \in 0..(StampKinds - 1) : Started(ExistingTable(PortRows, a))

NextPort ==
    \E id \in 1..(PortRows + 1), status \in PortStatuses, ok \in BOOLEAN :
        callUpdateBuildStatus(id, status, ok)

SpecPort == InitPort /\ [][NextPort]_vars

\* The service with one submission at a time followed statement by
\* statement, from its start to the exit of the process.
NextServe ==
    \/ submitArrive(Body("ab", "u", ""))
    \/ \E dbOk \in BOOLEAN : submitStore(dbOk)
    \/ submitRespond
    \/ submitGo
    \/ submitReturn
    \/ \E r \in 1..MaxBuilds, ok \in BOOLEAN : processBuildRunning(r, ok)
    \/ \E r \in 1..MaxBuilds, ok \in BOOLEAN : processBuildFinish(r, ok)
    \/ signal
    \/ \E err \in BOOLEAN : Shutdown(err)
    \/ Close
    \/ exit

SpecServe == Init /\ [][NextServe]_vars

\* ------------------------------------------------------------- properties
Terminal == {"success", "failed"}

\* The statuses stored under build r's identifier.
StoredStatuses(r) ==
    {rows[i].status : i \in {j \in DOMAIN rows : rows[j].id = mem[r].ID}}

\* Every status write the task has issued so far succeeded.
WritesSucceeded(r) == \A k \in DOMAIN task[r].updates : task[r].updates[k].ok

Failed(r) == task[r].exit \in {"runningWriteFailed", "terminalWriteFailed"}

\* The transitions of the lifecycle: queued -> running -> success | failed.
Lifecycle ==
    {<<"queued", "running">>, <<"running", "success">>, <<"running", "failed">>}

\* A step of some background task (no build is added, a task's state changes).
TaskStep == Len(task') = Len(task) /\ task' # task

\* C1 as stated: once the processBuild task of an accepted build has
\* completed, the build's stored status is success or failed.
C1_TerminalOnceTaskDone ==
    \A r \in DOMAIN task :
        task[r].pc = "done" =>
            StoredStatuses(r) # {} /\ StoredStatuses(r) \subseteq Terminal

\* C1, amended: once the task of an accepted build has completed with every
\* status write it issued succeeding, the stored status is exactly one of
\* success or failed; and a stored status that is success or failed never
\* again becomes queued or running.
C1_TerminalOnceWritesSucceeded ==
    /\ [](\A r \in DOMAIN task :
            (task[r].pc = "done" /\ WritesSucceeded(r)) =>
                \E st \in Terminal : StoredStatuses(r) = {st})
    /\ [][\A i \in DOMAIN rows :
            rows[i].status \in Terminal => rows'[i].status \in Terminal]_vars

\* A build's task completed normally and another build's task has since
\* written a status.
C1_Witness ==
    \E r, q \in DOMAIN task :
        /\ r # q
        /\ task[r].pc = "done" /\ WritesSucceeded(r)
        /\ StoredStatuses(r) \subseteq Terminal
        /\ task[q].updates # <<>> /\ WritesSucceeded(q)

\* C2: every change of a stored status is queued -> running, running ->
\* success or running -> failed, every record is inserted as queued, and a
\* task whose write of running failed issues no terminal write.
C2_LifecycleTransitions ==
    /\ [][/\ \A i \in DOMAIN rows :
                rows'[i].status # rows[i].status =>
                    <<rows[i].status, rows'[i].status>> \in Lifecycle
          /\ \A i \in DOMAIN rows' \ DOMAIN rows : rows'[i].status = "queued"]_vars
    /\ [](\A r \in DOMAIN task :
            (\E k \in DOMAIN task[r].updates :
                task[r].updates[k].status = "running" /\ ~task[r].updates[k].ok)
            => \A k \in DOMAIN task[r].updates :
                task[r].updates[k].status \notin Terminal)

\* One build went queued -> running -> terminal, another build's write of
\* running failed.
C2_Witness ==
    \E r, q \in DOMAIN task :
        /\ task[r].exit = "normal" /\ StoredStatuses(r) \subseteq Terminal
        /\ task[q].exit = "runningWriteFailed" /\ StoredStatuses(q) = {"queued"}

\* The metrics and the persistent state a rejected submission must leave alone.
CoreState ==
    <<mem, task, rows, seq, BuildsTotal, BuildDuration, ActiveBuilds,
      HealthCheck, ledger>>

\* The last response answered a decoded submission with an empty project
\* name or an empty git URL.
AnsweredEmptyField ==
    /\ resp.code # 0
    /\ resp.request.ok
    /\ (resp.request.ProjectName = "" \/ resp.request.GitURL = "")

\* C3: a submission whose project name or git URL is empty is answered 400
\* with no persistence call, no change of a metric and no task spawned, and no
\* persisted record has an empty project name or an empty git URL.
C3_EmptyFieldRejected ==
    /\ [](AnsweredEmptyField =>
            resp.code = StatusBadRequest /\ resp.creates = <<>>)
    /\ [][(resp' # resp /\ AnsweredEmptyField') => CoreState' = CoreState]_vars
    /\ [](\A i \in DOMAIN rows :
            rows[i].project_name # "" /\ rows[i].git_url # "")

\* A submission with a project name and no git URL was rejected while a
\* build was in progress.
C3_Witness ==
    /\ AnsweredEmptyField
    /\ resp.request.ProjectName # ""
    /\ resp.code = StatusBadRequest
    /\ \E r \in DOMAIN task : task[r].pc = "sleeping"

\* C4: a submission with a project name and a git URL whose CreateBuild
\* succeeds is answered 201 after exactly one CreateBuild call, made with
\* status queued; the response carries the identifier the INSERT returned,
\* the submitted project name, status queued and the submitted branch, or
\* "main" when the submitted branch is empty.
C4_Created ==
    /\ (resp.code # 0 /\ resp.request.ok /\ resp.request.ProjectName # ""
            /\ resp.request.GitURL # "")
        => /\ resp.code \in {StatusCreated, StatusInternalServerError}
           /\ resp.creates = <<"queued">>
    /\ resp.code = StatusCreated =>
        /\ resp.request.ok
        /\ resp.request.ProjectName # "" /\ resp.request.GitURL # ""
        /\ rows # <<>>
        /\ resp.body.ID = rows[Len(rows)].id
        /\ rows[Len(rows)].project_name = resp.request.ProjectName
        /\ rows[Len(rows)].git_url = resp.request.GitURL
        /\ resp.body.ProjectName = resp.request.ProjectName
        /\ resp.body.Status = "queued"
        /\ resp.body.Branch =
             (IF resp.request.Branch = "" THEN "main" ELSE resp.request.Branch)
        /\ rows[Len(rows)].branch = resp.body.Branch

\* A submission without a branch was answered 201 with branch "main" after
\* one with a branch had been accepted.
C4_Witness ==
    /\ resp.code = StatusCreated
    /\ resp.request.Branch = ""
    /\ resp.body.Branch = "main"
    /\ \E i \in DOMAIN rows : rows[i].branch = "dev"

\* C5: in the response to a valid submission, and in the record passed to
\* CreateBuild, the created and the updated timestamp are equal.
C5_TimestampsEqual ==
    /\ resp.code = StatusCreated => resp.body.CreatedAt = resp.body.UpdatedAt
    /\ \A r \in DOMAIN task :
         task[r].updates = <<>> =>
            \A i \in DOMAIN rows :
                rows[i].id = mem[r].ID => rows[i].created_at = rows[i].updated_at
\* A submission was answered 201 with an updated timestamp later than its
\* created timestamp.
C5_Witness ==
    /\ resp.code = StatusCreated
    /\ resp.body.CreatedAt < resp.body.UpdatedAt

\* C6: no two builds have the same identifier, in the table and in the
\* handlers' records, and the identifier of a build never changes.
C6_UniqueIdentifier ==
    /\ [](\A i, j \in DOMAIN rows : i # j => rows[i].id # rows[j].id)
    /\ [](\A r, q \in DOMAIN mem : r # q => mem[r].ID # mem[q].ID)
    /\ [](\A r \in DOMAIN mem : \E i \in DOMAIN rows : rows[i].id = mem[r].ID)
    /\ [][/\ \A i \in DOMAIN rows : rows'[i].id = rows[i].id
          /\ \A r \in DOMAIN mem : mem'[r].ID = mem[r].ID]_vars

\* Two builds exist, were accepted in either order of task progress, and
\* both tasks have written statuses.
C6_Witness ==
    /\ Len(rows) = 2
    /\ rows[1].id # rows[2].id
    /\ \A r \in DOMAIN task : task[r].pc = "done"

\* The number of live tasks: accepted builds whose task has not returned.
Live == Cardinality({r \in DOMAIN task : task[r].pc # "done"})

\* What the builds r..Len(ledger) have added to the gauge and not taken back.
RECURSIVE NetFrom(_)
NetFrom(r) ==
    IF r > Len(ledger) THEN 0
    ELSE ledger[r].inc - ledger[r].dec + NetFrom(r + 1)

\* C7: the gauge is the sum of the builds' contributions, and the
\* contribution of a build whose task wrote success or failed and returned is
\* zero: one increment at acceptance, one decrement at the task's exit.
C7_GaugeReturns ==
    /\ ActiveBuilds = NetFrom(1)
    /\ \A r \in DOMAIN task :
         task[r].exit = "normal" =>
            /\ ledger[r].inc = 1
            /\ ledger[r].dec = 1
    /\ (task # <<>> /\ \A r \in DOMAIN task : task[r].exit = "normal")
         => ActiveBuilds = 0

\* Every accepted build reached a terminal status and the gauge is back at
\* its initial value.
C7_Witness ==
    /\ Len(task) = 2
    /\ \A r \in DOMAIN task :
         task[r].exit = "normal" /\ StoredStatuses(r) \subseteq Terminal
    /\ ActiveBuilds = 0

\* C8: the exit accounting runs exactly once per task on every exit path:
\* a returned task has one duration observation under its project name and
\* one gauge decrement, a task that has not returned has none.
C8_ExitAccountingOnce ==
    /\ \A r \in DOMAIN task :
         /\ task[r].pc = "done" <=> task[r].exit # "none"
         /\ ledger[r].obs = (IF task[r].pc = "done" THEN 1 ELSE 0)
         /\ ledger[r].dec = (IF task[r].pc = "done" THEN 1 ELSE 0)
    /\ \A p \in ProjectNames :
         BuildDuration[p] =
            Cardinality({r \in DOMAIN task :
                            task[r].pc = "done" /\ mem[r].ProjectName = p})
    /\ ActiveBuilds = Live

\* One task returned early on a failed write of running, another returned
\* after a failed terminal write.
C8_Witness ==
    \E r, q \in DOMAIN task :
        /\ task[r].exit = "runningWriteFailed"
        /\ task[q].exit = "terminalWriteFailed"
        /\ ledger[r].obs = 1 /\ ledger[q].obs = 1

\* C9: a task whose status write failed issues no further write and returns,
\* leaving the stored status one step behind (queued after a failed write of
\* running, running after a failed terminal write); no step of a task ends
\* the process or writes a response.
C9_FailedWriteSwallowed ==
    /\ [](\A r \in DOMAIN task :
            /\ \A k \in DOMAIN task[r].updates :
                 ~task[r].updates[k].ok =>
                    k = Len(task[r].updates) /\ task[r].pc = "done"
            /\ Len(task[r].updates) <= 2
            /\ task[r].exit = "runningWriteFailed" =>
                 /\ StoredStatuses(r) = {"queued"}
                 /\ Len(task[r].updates) = 1
            /\ task[r].exit = "terminalWriteFailed" =>
                 /\ StoredStatuses(r) = {"running"}
                 /\ Len(task[r].updates) = 2
                 /\ task[r].updates[2].status \in Terminal)
    /\ [][TaskStep => (proc' = proc /\ resp' = resp)]_vars

\* A terminal write failed: the build is stored as running, its task is
\* done, the submission's 201 response stands and the process serves.
C9_Witness ==
    \E r \in DOMAIN task :
        /\ task[r].exit = "terminalWriteFailed"
        /\ StoredStatuses(r) = {"running"}
        /\ resp.code = StatusCreated /\ resp.body.ID = mem[r].ID
        /\ proc = "serving"

\* C10 as stated: for a task that ended on a failed status write, the
\* increment of the gauge made at acceptance is never undone.
C10_GaugeStaysIncremented ==
    \A r \in DOMAIN task : Failed(r) => ledger[r].inc - ledger[r].dec = 1

\* C10, amended: for a task that ended on a failed status write, the
\* deferred exit accounting has decremented the gauge once, so the increment
\* made at acceptance is undone and the gauge counts the live tasks only.
C10_GaugeDecrementedOnFailure ==
    /\ \A r \in DOMAIN task :
         Failed(r) => ledger[r].inc = 1 /\ ledger[r].dec = 1
    /\ ActiveBuilds = NetFrom(1)
    /\ (\E r \in DOMAIN task : Failed(r)) => ActiveBuilds < Len(task)

\* Every accepted build's task ended on a failed write and the gauge reads 0.
C10_Witness ==
    /\ task # <<>>
    /\ \A r \in DOMAIN task : Failed(r)
    /\ ActiveBuilds = 0

\* A step of createBuildHandler: the steps of Spec that are not a task's.
HandlerStep == ~TaskStep

\* C11: a valid submission whose CreateBuild failed is answered 500 after
\* exactly one call of CreateBuild, and the step that answers it leaves the
\* builds counter, the active-builds gauge, the table and the tasks as they
\* were: no task is spawned, so no UpdateBuildStatus follows from it.
C11_CreateFailure ==
    /\ [](resp.code = StatusInternalServerError =>
            /\ ValidRequest(resp.request.ProjectName, resp.request.GitURL)
            /\ resp.creates = <<"queued">>
            /\ resp.body = ZeroBuildRequest)
    /\ [](Len(task) = Len(rows) /\ Len(mem) = Len(rows))
    /\ [][(HandlerStep /\ resp'.code = StatusInternalServerError) =>
            /\ BuildsTotal' = BuildsTotal
            /\ ActiveBuilds' = ActiveBuilds
            /\ rows' = rows
            /\ task' = task
            /\ mem' = mem]_vars

\* A submission was answered 500 while an earlier build's task is in flight:
\* one row, one task, the counter and the gauge at one.
C11_Witness ==
    /\ resp.code = StatusInternalServerError
    /\ resp.creates = <<"queued">>
    /\ Len(rows) = 1 /\ Len(task) = 1 /\ task[1].pc = "sleeping"
    /\ BuildsTotal["queued"] = 1 /\ ActiveBuilds = 1

\* C12: the builds counter under "queued" equals the number of records
\* CreateBuild has stored, and the step that stores a record is the step
\* that adds one to that counter and one to the active-builds gauge.
C12_QueuedCountsCreated ==
    /\ [](BuildsTotal["queued"] = Len(rows))
    /\ [][Len(rows') # Len(rows) =>
            /\ Len(rows') = Len(rows) + 1
            /\ BuildsTotal'["queued"] = BuildsTotal["queued"] + 1
            /\ ActiveBuilds' = ActiveBuilds + 1
            /\ resp'.code = StatusCreated]_vars
    /\ [][BuildsTotal'["queued"] # BuildsTotal["queued"] =>
            Len(rows') = Len(rows) + 1]_vars

\* Two submissions were accepted and one was refused since: two records, the
\* counter at two.
C12_Witness ==
    /\ Len(rows) = 2
    /\ BuildsTotal["queued"] = 2
    /\ resp.code = StatusInternalServerError

\* C13: a health check calls Ping exactly once; when Ping failed it answers
\* 503 with status unhealthy and leaves the health gauge at 0, when Ping
\* succeeded it answers 200 with status healthy and leaves the gauge at 1.
C13_HealthReportsPing ==
    /\ HealthCheck \in {0, 1}
    /\ reply.endpoint = "health" =>
          /\ Len(reply.calls) = 1
          /\ reply.calls[1].op = "Ping"
          /\ IF reply.calls[1].outcome = "error"
             THEN /\ reply.code = StatusServiceUnavailable
                  /\ reply.health.status = "unhealthy"
                  /\ reply.health.database = "disconnected"
                  /\ HealthCheck = 0
             ELSE /\ reply.calls[1].outcome = "ok"
                  /\ reply.code = StatusOK
                  /\ reply.health.status = "healthy"
                  /\ reply.health.database = "connected"
                  /\ HealthCheck = 1

\* Ping failed while a build was running: 503, unhealthy, gauge 0.
C13_Witness ==
    /\ reply.endpoint = "health"
    /\ reply.calls = <<[op |-> "Ping", id |-> 0, outcome |-> "error"]>>
    /\ reply.code = StatusServiceUnavailable
    /\ HealthCheck = 0
    /\ \E r \in DOMAIN task : task[r].pc = "sleeping"

\* C14: a health check, whatever its outcome, leaves the table, the tasks,
\* the builds counters, the duration histogram and the active-builds gauge
\* as they were; a task that returned early did so after its own write of
\* running failed, and a task whose writes succeeded returns normally
\* whatever the health gauge reads.
C14_HealthLeavesBuilds ==
    /\ [][reply' # reply =>
            /\ reply'.endpoint = "health"
            /\ rows' = rows
            /\ task' = task
            /\ mem' = mem
            /\ BuildsTotal' = BuildsTotal
            /\ BuildDuration' = BuildDuration
            /\ ActiveBuilds' = ActiveBuilds
            /\ ledger' = ledger]_vars
    /\ [][HealthCheck' # HealthCheck => task' = task /\ rows' = rows]_vars
    /\ [](\A r \in DOMAIN task :
            /\ task[r].exit = "runningWriteFailed" =>
                 ~task[r].updates[1].ok
            /\ task[r].exit = "terminalWriteFailed" =>
                 ~task[r].updates[2].ok
            /\ (task[r].pc = "done" /\ WritesSucceeded(r)) =>
                 task[r].exit = "normal")

\* The last health check failed and the gauge reads 0, while one build's
\* task has returned normally and another's is in its build step.
C14_Witness ==
    /\ reply.code = StatusServiceUnavailable
    /\ HealthCheck = 0
    /\ \E r, q \in DOMAIN task :
         /\ task[r].exit = "normal" /\ StoredStatuses(r) = {"success"}
         /\ task[q].pc = "sleeping" /\ StoredStatuses(q) = {"running"}
    /\ ActiveBuilds = 1

\* C15: once main is signalled no request is served any more; no step of
\* main waits for a task or changes one; a task that has not returned can
\* take its next step, a status write included, while main is in Shutdown,
\* between Shutdown and db.Close, and after db.Close, where the write fails
\* and leaves the table as it was.
C15_ShutdownLeavesTasksRunning ==
    /\ [][proc # "serving" =>
            /\ resp' = resp
            /\ reply' = reply
            /\ Len(task') = Len(task)
            /\ Len(rows') = Len(rows)]_vars
    /\ [][proc' # proc => task' = task /\ rows' = rows /\ mem' = mem]_vars
    /\ [](/\ proc = "serving" => ENABLED signal
          /\ proc = "shuttingDown" => ENABLED Shutdown(FALSE) /\ ENABLED Shutdown(TRUE)
          /\ proc = "drained" => ENABLED Close
          /\ proc = "closed" => ENABLED exit)
    /\ [](\A r \in DOMAIN task :
            proc \in {"shuttingDown", "drained", "closed"} =>
               /\ task[r].pc = "spawned" => ENABLED processBuildRunning(r, FALSE)
               /\ task[r].pc = "sleeping" => ENABLED processBuildFinish(r, FALSE)
               /\ (task[r].pc = "spawned" /\ proc # "closed") =>
                     ENABLED processBuildRunning(r, TRUE)
               /\ (task[r].pc = "sleeping" /\ proc # "closed") =>
                     ENABLED processBuildFinish(r, TRUE))
    /\ [][(proc = "closed" /\ TaskStep) => rows' = rows]_vars

\* main has run db.Close and is about to exit: one task returned on a
\* terminal write that failed, another, spawned before the signal, is still
\* in its build step with its terminal write to come, which can only fail.
C15_Witness ==
    /\ proc = "closed"
    /\ \E r, q \in DOMAIN task :
         /\ task[r].exit = "terminalWriteFailed"
         /\ task[q].pc = "sleeping"
         /\ StoredStatuses(q) = {"running"}
         /\ ENABLED processBuildFinish(q, FALSE)
         /\ ~ENABLED processBuildFinish(q, TRUE)
    /\ ENABLED exit

\* The identifiers of the rows a list reply holds.
ListedIds == {reply.builds[i].ID : i \in DOMAIN reply.builds}

NotIntegers == {<<"a">>, <<"1", "x">>, <<"-">>}
Denoted ==
    (<<"1">> :> 1) @@ (<<"2">> :> 2) @@ (<<"0", "1">> :> 1) @@
    (<<"+", "2">> :> 2) @@ (<<"-", "1">> :> -1) @@
    (<<"1", "0", "1">> :> 101) @@ (<<"9">> :> 9)

\* C17: a get whose {id} is no integer is answered 400 without a call on
\* the persistence port; otherwise GetBuild is called once with the integer,
\* and the answer is 200 with the stored record when the row exists, 404
\* when there is no such row, 500 when the query failed otherwise.
C17_GetBuildCodes ==
    reply.endpoint = "get" =>
        IF reply.request \in NotIntegers
        THEN /\ reply.code = StatusBadRequest
             /\ reply.calls = <<>>
             /\ reply.build = ZeroBuildRequest
        ELSE /\ Len(reply.calls) = 1
             /\ reply.calls[1].op = "GetBuild"
             /\ reply.calls[1].id = Denoted[reply.request]
             /\ LET id == Denoted[reply.request]
                    stored == {j \in DOMAIN rows : rows[j].id = id}
                IN  /\ reply.calls[1].outcome = "row" =>
                         /\ reply.code = StatusOK
                         /\ stored # {}
                         /\ \A j \in stored : reply.build = Scan(rows[j])
                    /\ reply.calls[1].outcome = "no rows" =>
                         /\ reply.code = StatusNotFound
                         /\ stored = {}
                         /\ reply.build = ZeroBuildRequest
                    /\ reply.calls[1].outcome = "error" =>
                         /\ reply.code = StatusInternalServerError
                         /\ reply.build = ZeroBuildRequest
                    /\ reply.calls[1].outcome \in {"row", "no rows", "error"}

\* GET /api/v1/builds/101 over a table of 99 rows: GetBuild(101) found no
\* row and the answer is 404.
C17_Witness ==
    /\ reply.endpoint = "get"
    /\ reply.request = <<"1", "0", "1">>
    /\ reply.calls = <<[op |-> "GetBuild", id |-> 101, outcome |-> "no rows"]>>
    /\ reply.code = StatusNotFound
    /\ Len(rows) = ListLimit - 1

\* C18 as stated: every row's creation time, a reading of the service's
\* clock, is at or before its update time, which a status write replaces by
\* a reading of the database's clock.
C18_CreatedBeforeUpdated ==
    \A i \in DOMAIN rows : rows[i].created_at <= rows[i].updated_at

\* The service's clock is ahead of the database's: a build created at 1 was
\* written running at the database's 0.
C18_Witness ==
    \E r \in DOMAIN task :
        /\ task[r].updates # <<>> /\ task[r].updates[1].ok
        /\ \E i \in DOMAIN rows :
             /\ rows[i].id = mem[r].ID
             /\ rows[i].status = "running"
             /\ rows[i].created_at = 1
             /\ rows[i].updated_at = 0

\* C19: the accepted builds have different identifiers and one task each,
\* every UpdateBuildStatus call of a task carries its own build's identifier,
\* and the step that changes a row's status or update time is a step of the
\* task of that row's build, in which the task made one call.
C19_OwnTaskWritesStatus ==
    /\ [](/\ Len(task) = Len(mem)
          /\ \A r, q \in DOMAIN mem : r # q => mem[r].ID # mem[q].ID
          /\ \A i \in DOMAIN rows :
               Cardinality({r \in DOMAIN task : mem[r].ID = rows[i].id}) = 1
          /\ \A r \in DOMAIN task : \A k \in DOMAIN task[r].updates :
               task[r].updates[k].id = mem[r].ID)
    /\ [][\A i \in DOMAIN rows :
            (rows'[i].status # rows[i].status
                \/ rows'[i].updated_at # rows[i].updated_at) =>
               \E r \in DOMAIN task :
                  /\ mem[r].ID = rows[i].id
                  /\ Len(task'[r].updates) = Len(task[r].updates) + 1
                  /\ task'[r].updates[Len(task'[r].updates)].id = rows[i].id
                  /\ \A q \in DOMAIN task : q # r => task'[q] = task[q]]_vars

\* Two builds, each written by its own task: the first is stored with its
\* terminal status after two calls, the second as running after one.
C19_Witness ==
    /\ Len(task) = 2 /\ Len(rows) = 2
    /\ Len(task[1].updates) = 2 /\ Len(task[2].updates) = 1
    /\ rows[1].status \in Terminal /\ rows[2].status = "running"
    /\ task[1].updates[2].id = rows[1].id
    /\ task[2].updates[1].id = rows[2].id

\* C20: a task's UpdateBuildStatus calls come in order: none before it
\* starts, then running, then, only after the write of running has returned
\* without error and the build step is over, one call with the outcome of
\* the build, success or failed; a returned task whose writes all succeeded
\* made exactly these two calls.
C20_WritesInOrder ==
    \A r \in DOMAIN task :
        LET u == task[r].updates
        IN  /\ Len(u) <= 2
            /\ task[r].pc = "spawned" <=> u = <<>>
            /\ task[r].pc = "sleeping" => (Len(u) = 1 /\ u[1].ok)
            /\ Len(u) >= 1 => u[1].status = "running"
            /\ Len(u) = 2 =>
                  /\ u[1].ok
                  /\ u[2].status \in Terminal
                  /\ u[2].status = Outcome(mem[r].ProjectName)
                  /\ task[r].pc = "done"
            /\ (task[r].pc = "done" /\ WritesSucceeded(r)) =>
                  /\ Len(u) = 2
                  /\ task[r].exit = "normal"

\* One task made its two calls, running then failed, both without error;
\* another has written running and is in its build step.
C20_Witness ==
    \E r, q \in DOMAIN task :
        /\ task[r].pc = "done" /\ WritesSucceeded(r)
        /\ Len(task[r].updates) = 2
        /\ task[r].updates[1].status = "running"
        /\ task[r].updates[2].status = "failed"
        /\ task[q].pc = "sleeping" /\ Len(task[q].updates) = 1

\* The statement the followed handler is about to run, "none" if there is
\* none.
Stmt == IF handler.pc = "accepted" THEN HandlerOrder[handler.at] ELSE "none"

\* C21: the step that starts a task finds the 201 response of that task's
\* build already written and leaves it as it is; the task it starts has run
\* no statement; and the handler's go statement and its return can be taken
\* whatever the tasks are doing, the return leaving every task as it is.
C21_TaskStartedAfterResponse ==
    /\ [][Len(task') # Len(task) =>
            /\ Len(task') = Len(task) + 1
            /\ resp.code = StatusCreated
            /\ resp.body.ID = mem[Len(task')].ID
            /\ resp' = resp
            /\ task'[Len(task')] = Spawn]_vars
    /\ []((Scheduled /\ Stmt = "go") => ENABLED submitGo)
    /\ []((Scheduled /\ Stmt = "return") => ENABLED submitReturn)
    /\ [][(Stmt = "return" /\ handler' = Idle) => task' = task]_vars

\* The handler is at its return while the task it started is still where
\* the go statement left it, and the 201 response is written.
C21_Witness ==
    /\ Stmt = "return"
    /\ task[handler.r] = Spawn
    /\ resp.code = StatusCreated /\ resp.body.ID = mem[handler.r].ID
    /\ ENABLED submitReturn

\* C22: the 201 response of an accepted submission holds the build with
\* status queued, whatever its task has written to the build's record in
\* memory since.
C22_ResponseReportsQueued ==
    resp.code = StatusCreated =>
        /\ resp.body.Status = "queued"
        /\ \E r \in DOMAIN mem :
             /\ mem[r].ID = resp.body.ID
             /\ resp.body = [mem[r] EXCEPT !.Status = "queued"]

\* The task has set the record's status to success; the response written
\* before says queued.
C22_Witness ==
    /\ resp.code = StatusCreated
    /\ resp.body.Status = "queued"
    /\ \E r \in DOMAIN task :
         /\ mem[r].ID = resp.body.ID
         /\ mem[r].Status = "success"
         /\ task[r].exit = "normal"

\* The outcome task r computed, once it has: the status of its terminal
\* write.
Computed(r) == task[r].updates[2].status

\* C23: the outcome a task computes is failed exactly when the length of
\* its build's project name is a multiple of 10 and success otherwise; it is
\* the status the task leaves in the build's record; and two tasks whose
\* project names have the same length compute the same outcome.
C23_OutcomeByLength ==
    /\ \A r \in DOMAIN task :
         Len(task[r].updates) = 2 =>
            /\ Computed(r) \in Terminal
            /\ Computed(r) = "failed" <=> Len(mem[r].ProjectName) % 10 = 0
            /\ mem[r].Status = Computed(r)
    /\ \A r, q \in DOMAIN task :
         (/\ Len(task[r].updates) = 2
          /\ Len(task[q].updates) = 2
          /\ Len(mem[r].ProjectName) = Len(mem[q].ProjectName))
            => Computed(r) = Computed(q)

\* Two builds whose project names differ and have length 10: both tasks
\* computed failed.
C23_Witness ==
    /\ Len(task) = 2
    /\ mem[1].ProjectName # mem[2].ProjectName
    /\ Len(mem[1].ProjectName) = 10 /\ Len(mem[2].ProjectName) = 10
    /\ Len(task[1].updates) = 2 /\ Len(task[2].updates) = 2
    /\ Computed(1) = "failed" /\ Computed(2) = "failed"

\* C24 as stated: no status update takes a row whose stored status is
\* success or failed to queued or running; the update is refused and the row
\* keeps its status.
C24_TerminalNotReentered ==
    [][\A i \in DOMAIN rows :
          rows[i].status \in Terminal =>
             rows'[i].status \notin {"queued", "running"}]_vars

\* The row of identifier 2, which every table of InitPort holds with status
\* success, is stored as running.
C24_Witness ==
    \E i \in DOMAIN rows :
        /\ rows[i].id = 2
        /\ ExistingTable(PortRows, 0)[i].status = "success"
        /\ rows[i].status = "running"

\* A valid submission is accepted in this step.
Accepted ==
    /\ createBuildHandler(Body("ab", "u", ""))
    /\ resp'.code = StatusCreated
    /\ Len(task') = Len(task) + 1

\* C25: while the process serves, a valid submission can be accepted
\* whatever the number of tasks that have not returned (up to the MaxBuilds
\* submissions the model follows); the step that accepts it adds one live
\* task and leaves the earlier tasks as they are.
C25_NoAdmissionControl ==
    /\ []((proc = "serving" /\ Len(mem) < MaxBuilds) => ENABLED Accepted)
    /\ [][Len(task') # Len(task) =>
            /\ Len(task') = Len(task) + 1
            /\ \A r \in DOMAIN task : task'[r] = task[r]
            /\ task'[Len(task')].pc # "done"
            /\ Live' = Live + 1]_vars
    /\ [][(resp' # resp /\ resp'.code # StatusCreated) =>
            \/ ~ValidRequest(resp'.request.ProjectName, resp'.request.GitURL)
            \/ ~resp'.request.ok
            \/ resp'.creates = <<"queued">>]_vars

\* MaxBuilds submissions were accepted and the task of each is live.
C25_Witness ==
    /\ Len(task) = MaxBuilds
    /\ Live = MaxBuilds
    /\ ActiveBuilds = MaxBuilds
    /\ resp.code = StatusCreated

\* The accepted builds whose task has not returned: those whose handler has
\* yet to run its go statement and those whose task is on its way.
NotExited == {r \in DOMAIN mem : r \notin DOMAIN task \/ task[r].pc # "done"}

\* C26: the active-builds gauge equals the number of accepted builds whose
\* task has not returned, so it is never negative and never above the number
\* of accepted builds.
C26_GaugeCountsLiveBuilds ==
    /\ ActiveBuilds = Cardinality(NotExited)
    /\ ActiveBuilds >= 0
    /\ ActiveBuilds <= Len(mem)
    /\ Len(task) <= Len(mem)

\* Two builds are accepted: the task of the first is in its build step,
\* the handler of the second has not reached its go statement; the gauge
\* reads 2.
C26_Witness ==
    /\ Len(mem) = 2 /\ Len(task) = 1
    /\ task[1].pc = "sleeping"
    /\ Stmt = "respond"
    /\ ActiveBuilds = 2

\* The tasks that have added to the builds counter under label s: those
\* that returned after a write of running that succeeded, with outcome s.
Counted(s) ==
    {r \in DOMAIN task :
        /\ task[r].pc = "done"
        /\ task[r].updates[1].ok
        /\ Outcome(mem[r].ProjectName) = s}

TerminalRows == {i \in DOMAIN rows : rows[i].status \in Terminal}

\* C27: the builds counters under success and failed count the returned
\* tasks whose write of running succeeded, each once and under the label of
\* its outcome only; a step adds at most one to their sum, and only a step
\* of a task past its write of running; the rows of terminal status are at
\* most as many as that sum, which is at most the counter under queued.
C27_TerminalCounters ==
    /\ [](/\ \A s \in Terminal : BuildsTotal[s] = Cardinality(Counted(s))
          /\ Counted("success") \cap Counted("failed") = {}
          /\ Cardinality(TerminalRows)
                <= BuildsTotal["success"] + BuildsTotal["failed"]
          /\ BuildsTotal["success"] + BuildsTotal["failed"]
                <= BuildsTotal["queued"])
    /\ [][\/ \A s \in Terminal : BuildsTotal'[s] = BuildsTotal[s]
          \/ \E r \in DOMAIN task :
                /\ task[r].pc = "sleeping" /\ task[r].updates[1].ok
                /\ task'[r].pc = "done"
                /\ LET s == Outcome(mem[r].ProjectName)
                   IN  /\ BuildsTotal'[s] = BuildsTotal[s] + 1
                       /\ \A t \in Terminal \ {s} :
                            BuildsTotal'[t] = BuildsTotal[t]]_vars

\* One task returned on a failed write of running and counted nothing;
\* the other counted its outcome and failed to store it: no row is terminal,
\* the sum of the two counters is 1 and the counter under queued is 2.
C27_Witness ==
    /\ \E r, q \in DOMAIN task :
         /\ task[r].exit = "runningWriteFailed"
         /\ task[q].exit = "terminalWriteFailed"
    /\ TerminalRows = {}
    /\ BuildsTotal["success"] + BuildsTotal["failed"] = 1
    /\ BuildsTotal["queued"] = 2

\* C28: db.Close runs only after Shutdown has returned nil, which it does
\* only when no handler is in flight; every step of a handler, its call of
\* CreateBuild included, is taken before db.Close; and when Shutdown returns
\* an error the process ends there, without db.Close.
C28_CloseAfterShutdown ==
    /\ [][proc' # proc =>
            /\ proc' = "drained" => (proc = "shuttingDown" /\ handler = Idle)
            /\ proc' = "closed" => proc = "drained"
            /\ proc' = "fatal" => proc = "shuttingDown"
            /\ proc' = "exited" => proc = "closed"]_vars
    /\ [][handler' # handler => (DbOpen /\ proc \in {"serving", "shuttingDown"})]_vars
    /\ []((handler # Idle /\ Scheduled) => DbOpen)
    /\ [](proc = "fatal" => (DbOpen /\ ~ENABLED Close))

\* main is in Shutdown while a handler that arrived before the signal has
\* yet to call CreateBuild: the call can succeed, Shutdown cannot return nil
\* and can return the error of the deadline.
C28_Witness ==
    /\ proc = "shuttingDown"
    /\ handler.pc = "decoded"
    /\ ENABLED submitStore(TRUE)
    /\ ~ENABLED Shutdown(FALSE)
    /\ ENABLED Shutdown(TRUE)

\* C29: every answer of the health check, with 200 or with 503, carries the
\* Content-Type application/json.
C29_HealthContentTypeJSON ==
    reply.endpoint = "health" => reply.contentType = "application/json"

\* An unhealthy answer: 503 written, the failed Ping behind it, and no
\* Content-Type of the handler in the header that went out with the status.
C29_Witness ==
    /\ reply.endpoint = "health"
    /\ reply.code = StatusServiceUnavailable
    /\ reply.health.status = "unhealthy"
    /\ reply.contentType = ""

====
